---- MODULE Spec2Model ----
(***************************************************************************)
(* Model of src/services/llm/deepseek_inference.py: one process run of     *)
(* main(), from the argument check to the process exit.  The script is     *)
(* single threaded, so the state is the program counter `pc`, the locals   *)
(* of main/analyze_image/load_model, the two output streams and the exit   *)
(* status.  Every call into torch / transformers / PIL is a step whose     *)
(* outcome (a value, or an exception of class Exception) is chosen by the  *)
(* environment.  Writes to the standard streams are taken to succeed.      *)
(* `trace`, `failed`, `calls` and `mainHandlerEntered` are history         *)
(* variables: they record what ran and do not influence the run.           *)
(***************************************************************************)
EXTENDS Integers, Sequences, FiniteSets, TLC

\* ---------------------------------------------------------------- bounds
MaxArgs == 3                       \* most arguments after the script name

Script == "deepseek_inference.py"
Strs == {"a.jpg", "b.jpg", "m1"}   \* values an argument can take
ErrTexts == {"E1", "E2"}           \* str(e) of an exception of the backend
Devices == {"mps", "cuda", "cpu"}
Responses == {"", "SUBJECTS: tiger", "TAGS: owl"}

\* ------------------------------------------------------- program constants
DefaultModel == "deepseek-ai/deepseek-vl-1.3b-chat"
Prompt == "Analyze this wildlife photo ..."

\* Python values: Optional[str] and the exception in flight
None == [isNone |-> TRUE, val |-> ""]
Str(s) == [isNone |-> FALSE, val |-> s]
NoExc == <<>>
NoModel == [dtype |-> "none", on |-> "none", gencfg |-> FALSE]

\* a line written to a stream
Line(kind, tag, detail) == [kind |-> kind, tag |-> tag, detail |-> detail]

\* the calls of the script in the order of the code
StepOrder ==
  << "path_check", "device_probe", "config_load", "processor_load",
     "tokenizer_load", "model_load", "model_to", "genconfig_load",
     "image_open", "image_convert", "prompt", "processor_call",
     "generate", "decode", "print" >>

VARIABLES argv, fs, pc, image_path, model_name, device, model, processor,
          tokenizer, image, prompt, response, result, exc, stdout, stderr,
          exitStatus, trace, failed, calls, mainHandlerEntered

vars == << argv, fs, pc, image_path, model_name, device, model, processor,
           tokenizer, image, prompt, response, result, exc, stdout, stderr,
           exitStatus, trace, failed, calls, mainHandlerEntered >>

io == << stdout, stderr >>
mainLocals == << image_path, model_name >>
loaded == << model, processor, tokenizer >>
hist == << calls, mainHandlerEntered >>
env == << argv, fs >>

\* sequences over S of length 0..n
SeqsUpTo(S, n) == UNION { [1..k -> S] : k \in 0..n }

\* sys.argv[i], Python's zero-based index
Argv(i) == argv[i + 1]
ArgvLen == Len(argv)

Init ==
  /\ argv \in { <<Script>> \o a : a \in SeqsUpTo(Strs, MaxArgs) }
  /\ fs \in SUBSET Strs
  /\ pc = "main"
  /\ image_path = ""
  /\ model_name = ""
  /\ device = "none"
  /\ model = NoModel
  /\ processor = FALSE
  /\ tokenizer = FALSE
  /\ image = "none"
  /\ prompt = ""
  /\ response = None
  /\ result = None
  /\ exc = NoExc
  /\ stdout = <<>>
  /\ stderr = <<>>
  /\ exitStatus = -1
  /\ trace = <<>>
  /\ failed = "none"
  /\ calls = <<>>
  /\ mainHandlerEntered = FALSE

\* `step` raises e: control goes to the except clause `handler`
Raise(step, e, handler) ==
  /\ exc' = e
  /\ failed' = step
  /\ pc' = handler

\* `step` returns: control goes on to `next`
Return(next) ==
  /\ pc' = next
  /\ UNCHANGED << exc, failed >>

Started(step) == trace' = Append(trace, step)

\* ------------------------------------------------------------------ main
\* MainArgs with the usage message printed without file=sys.stderr
MainArgs_UsageToStdout ==
  /\ pc = "main"
  /\ IF ArgvLen < 2
       THEN /\ stdout' = Append(stdout, Line("usage", "Usage", <<>>))
            /\ exitStatus' = 1
            /\ pc' = "exited"
            /\ UNCHANGED << mainLocals, stderr >>
       ELSE /\ image_path' = Argv(1)
            /\ model_name' = IF ArgvLen > 2 THEN Argv(2) ELSE DefaultModel
            /\ pc' = "analyze_image"
            /\ UNCHANGED << io, exitStatus >>
  /\ UNCHANGED << env, device, loaded, image, prompt, response, result, exc,
                  trace, failed, hist >>

\* MainArgs with the model name read from sys.argv[-1]
MainArgs_LastArg ==
  /\ pc = "main"
  /\ IF ArgvLen < 2
       THEN /\ stderr' = Append(stderr, Line("usage", "Usage", <<>>))
            /\ exitStatus' = 1
            /\ pc' = "exited"
            /\ UNCHANGED mainLocals
       ELSE /\ image_path' = Argv(1)
            /\ model_name' = IF ArgvLen > 2 THEN Argv(ArgvLen - 1)
                                             ELSE DefaultModel
            /\ pc' = "analyze_image"
            /\ UNCHANGED << stderr, exitStatus >>
  /\ UNCHANGED << env, device, loaded, image, prompt, response, result, exc,
                  stdout, trace, failed, hist >>

\* lines 140-149: the argument check and the choice of the two arguments
MainArgs ==
  /\ pc = "main"
  /\ IF ArgvLen < 2
       THEN /\ stderr' = Append(stderr, Line("usage", "Usage", <<>>))
            /\ exitStatus' = 1
            /\ pc' = "exited"
            /\ UNCHANGED mainLocals
       ELSE /\ image_path' = Argv(1)
            /\ model_name' = IF ArgvLen > 2 THEN Argv(2) ELSE DefaultModel
            /\ pc' = "analyze_image"
            /\ UNCHANGED << stderr, exitStatus >>
  /\ UNCHANGED << env, device, loaded, image, prompt, response, result, exc,
                  stdout, trace, failed, hist >>

\* MainAfterAnalyze without the `if result is None: sys.exit(1)`
MainAfterAnalyze_NoNoneCheck ==
  /\ pc = "main_after"
  /\ IF exc # NoExc
       THEN /\ stderr' = Append(stderr, Line("error", "Error", exc))
            /\ mainHandlerEntered' = TRUE
            /\ exitStatus' = 1
       ELSE /\ exitStatus' = 0
            /\ UNCHANGED << stderr, mainHandlerEntered >>
  /\ pc' = "exited"
  /\ UNCHANGED << env, mainLocals, device, loaded, image, prompt, response,
                  result, exc, stdout, trace, failed, calls >>

\* MainAfterAnalyze with `if not result:` in place of `if result is None:`
MainAfterAnalyze_Falsy ==
  /\ pc = "main_after"
  /\ IF exc # NoExc
       THEN /\ stderr' = Append(stderr, Line("error", "Error", exc))
            /\ mainHandlerEntered' = TRUE
            /\ exitStatus' = 1
       ELSE /\ exitStatus' = IF result.isNone \/ result.val = "" THEN 1 ELSE 0
            /\ UNCHANGED << stderr, mainHandlerEntered >>
  /\ pc' = "exited"
  /\ UNCHANGED << env, mainLocals, device, loaded, image, prompt, response,
                  result, exc, stdout, trace, failed, calls >>

\* lines 151-157: what main does once analyze_image has returned or raised
MainAfterAnalyze ==
  /\ pc = "main_after"
  /\ IF exc # NoExc
       THEN /\ stderr' = Append(stderr, Line("error", "Error", exc))
            /\ mainHandlerEntered' = TRUE
            /\ exitStatus' = 1
       ELSE /\ exitStatus' = IF result.isNone THEN 1 ELSE 0
            /\ UNCHANGED << stderr, mainHandlerEntered >>
  /\ pc' = "exited"
  /\ UNCHANGED << env, mainLocals, device, loaded, image, prompt, response,
                  result, exc, stdout, trace, failed, calls >>

\* --------------------------------------------------------- analyze_image
\* AnalyzePathCheck without the os.path.exists test
AnalyzePathCheck_NoCheck ==
  /\ pc = "analyze_image"
  /\ calls' = Append(calls, << image_path, model_name >>)
  /\ Started("path_check")
  /\ Return("setup_gpu")
  /\ UNCHANGED << env, mainLocals, device, loaded, image, prompt, response,
                  result, io, exitStatus, mainHandlerEntered >>

\* lines 81-84: entry of analyze_image and the existence check of the path
AnalyzePathCheck ==
  /\ pc = "analyze_image"
  /\ calls' = Append(calls, << image_path, model_name >>)
  /\ Started("path_check")
  /\ IF image_path \notin fs
       THEN Raise("path_check", << "Image file not found", image_path >>,
                  "analyze_except")
       ELSE Return("setup_gpu")
  /\ UNCHANGED << env, mainLocals, device, loaded, image, prompt, response,
                  result, io, exitStatus, mainHandlerEntered >>

\* SetupGpu with the device line printed without file=sys.stderr
SetupGpu_PrintsToStdout ==
  /\ pc = "setup_gpu"
  /\ Started("device_probe")
  /\ \/ \E d \in Devices :
          /\ device' = d
          /\ stdout' = Append(stdout, Line("progress", "Using device", <<d>>))
          /\ Return("load_config")
     \/ \E e \in ErrTexts :
          /\ Raise("device_probe", <<e>>, "analyze_except")
          /\ UNCHANGED << device, stdout >>
  /\ UNCHANGED << env, mainLocals, loaded, image, prompt, response, result,
                  stderr, exitStatus, hist >>

\* lines 14-23 and 87: the device probe
SetupGpu ==
  /\ pc = "setup_gpu"
  /\ Started("device_probe")
  /\ \/ \E d \in Devices :
          /\ device' = d
          /\ stderr' = Append(stderr, Line("progress", "Using device", <<d>>))
          /\ Return("load_config")
     \/ \E e \in ErrTexts :
          /\ Raise("device_probe", <<e>>, "analyze_except")
          /\ UNCHANGED << device, stderr >>
  /\ UNCHANGED << env, mainLocals, loaded, image, prompt, response, result,
                  stdout, exitStatus, hist >>

\* ------------------------------------------------------------ load_model
\* lines 38-40: AutoConfig.from_pretrained
LoadConfig ==
  /\ pc = "load_config"
  /\ Started("config_load")
  /\ stderr' = Append(stderr, Line("progress", "Loading model configuration",
                                   <<model_name>>))
  /\ \/ Return("load_processor")
     \/ \E e \in ErrTexts : Raise("config_load", <<e>>, "load_except")
  /\ UNCHANGED << env, mainLocals, device, loaded, image, prompt, response,
                  result, stdout, exitStatus, hist >>

\* lines 42-45: AutoProcessor.from_pretrained
LoadProcessor ==
  /\ pc = "load_processor"
  /\ Started("processor_load")
  /\ stderr' = Append(stderr, Line("progress",
                                   "Loading processor and tokenizer",
                                   <<model_name>>))
  /\ \/ /\ processor' = TRUE
        /\ Return("load_tokenizer")
     \/ /\ \E e \in ErrTexts : Raise("processor_load", <<e>>, "load_except")
        /\ UNCHANGED processor
  /\ UNCHANGED << env, mainLocals, device, model, tokenizer, image, prompt,
                  response, result, stdout, exitStatus, hist >>

\* lines 46-47: AutoTokenizer.from_pretrained
LoadTokenizer ==
  /\ pc = "load_tokenizer"
  /\ Started("tokenizer_load")
  /\ \/ /\ tokenizer' = TRUE
        /\ Return("load_weights")
     \/ /\ \E e \in ErrTexts : Raise("tokenizer_load", <<e>>, "load_except")
        /\ UNCHANGED tokenizer
  /\ UNCHANGED << env, mainLocals, device, model, processor, image, prompt,
                  response, result, io, exitStatus, hist >>

\* lines 49-56: AutoModelForCausalLM.from_pretrained, dtype from the device
LoadWeights ==
  /\ pc = "load_weights"
  /\ Started("model_load")
  /\ stderr' = Append(stderr, Line("progress", "Loading model",
                                   <<model_name>>))
  /\ \/ /\ model' = [model EXCEPT !.dtype =
                       IF device \in {"cuda", "mps"} THEN "float16"
                                                     ELSE "float32"]
        /\ Return("model_to")
     \/ /\ \E e \in ErrTexts : Raise("model_load", <<e>>, "load_except")
        /\ UNCHANGED model
  /\ UNCHANGED << env, mainLocals, device, processor, tokenizer, image,
                  prompt, response, result, stdout, exitStatus, hist >>

\* lines 58-62: model.to(device)
ModelTo ==
  /\ pc = "model_to"
  /\ Started("model_to")
  /\ \/ /\ model' = [model EXCEPT !.on = device]
        /\ Return("load_genconfig")
     \/ /\ \E e \in ErrTexts : Raise("model_to", <<e>>, "load_except")
        /\ UNCHANGED model
  /\ UNCHANGED << env, mainLocals, device, processor, tokenizer, image,
                  prompt, response, result, io, exitStatus, hist >>

\* lines 64-65: GenerationConfig.from_pretrained, then the return
LoadGenConfig ==
  /\ pc = "load_genconfig"
  /\ Started("genconfig_load")
  /\ \/ /\ model' = [model EXCEPT !.gencfg = TRUE]
        /\ Return("image_open")
     \/ /\ \E e \in ErrTexts : Raise("genconfig_load", <<e>>, "load_except")
        /\ UNCHANGED model
  /\ UNCHANGED << env, mainLocals, device, processor, tokenizer, image,
                  prompt, response, result, io, exitStatus, hist >>

\* lines 67-69: the except clause of load_model logs and re-raises
LoadExcept ==
  /\ pc = "load_except"
  /\ stderr' = Append(stderr, Line("error", "Error loading model", exc))
  /\ pc' = "analyze_except"
  /\ UNCHANGED << env, mainLocals, device, loaded, image, prompt, response,
                  result, exc, stdout, exitStatus, trace, failed, hist >>

\* ------------------------------------------- analyze_image, after the load
\* line 94: Image.open; a file that is not there cannot be opened
ImageOpen ==
  /\ pc = "image_open"
  /\ Started("image_open")
  /\ \/ /\ image_path \in fs
        /\ image' = "opened"
        /\ Return("image_convert")
     \/ /\ \E e \in ErrTexts : Raise("image_open", <<e>>, "image_except")
        /\ UNCHANGED image
  /\ UNCHANGED << env, mainLocals, device, loaded, prompt, response, result,
                  io, exitStatus, hist >>

\* line 95: image.convert('RGB')
ImageConvert ==
  /\ pc = "image_convert"
  /\ Started("image_convert")
  /\ \/ /\ image' = "RGB"
        /\ Return("prompt")
     \/ /\ \E e \in ErrTexts : Raise("image_convert", <<e>>, "image_except")
        /\ UNCHANGED image
  /\ UNCHANGED << env, mainLocals, device, loaded, prompt, response, result,
                  io, exitStatus, hist >>

\* lines 96-98: the except clause of the image block logs and re-raises
ImageExcept ==
  /\ pc = "image_except"
  /\ stderr' = Append(stderr, Line("error", "Error loading image", exc))
  /\ pc' = "analyze_except"
  /\ UNCHANGED << env, mainLocals, device, loaded, image, prompt, response,
                  result, exc, stdout, exitStatus, trace, failed, hist >>

\* lines 100-109: the fixed prompt
CreatePrompt ==
  /\ pc = "prompt"
  /\ Started("prompt")
  /\ prompt' = Prompt
  /\ Return("processor_call")
  /\ UNCHANGED << env, mainLocals, device, loaded, image, response, result,
                  io, exitStatus, hist >>

\* lines 113-114: processor(images, text).to(device)
ProcessorCall ==
  /\ pc = "processor_call"
  /\ Started("processor_call")
  /\ \/ Return("generate")
     \/ \E e \in ErrTexts : Raise("processor_call", <<e>>, "infer_except")
  /\ UNCHANGED << env, mainLocals, device, loaded, image, prompt, response,
                  result, io, exitStatus, hist >>

\* lines 116-124: model.generate under torch.no_grad()
Generate ==
  /\ pc = "generate"
  /\ Started("generate")
  /\ \/ Return("decode")
     \/ \E e \in ErrTexts : Raise("generate", <<e>>, "infer_except")
  /\ UNCHANGED << env, mainLocals, device, loaded, image, prompt, response,
                  result, io, exitStatus, hist >>

\* lines 126-127: tokenizer.decode gives the response string
Decode ==
  /\ pc = "decode"
  /\ Started("decode")
  /\ \/ /\ \E r \in Responses : response' = Str(r)
        /\ Return("print")
     \/ /\ \E e \in ErrTexts : Raise("decode", <<e>>, "infer_except")
        /\ UNCHANGED response
  /\ UNCHANGED << env, mainLocals, device, loaded, image, prompt, result, io,
                  exitStatus, hist >>

\* lines 128-129: print(response) to stdout and return it
PrintResponse ==
  /\ pc = "print"
  /\ Started("print")
  /\ stdout' = Append(stdout, Line("response", response.val, <<>>))
  /\ result' = response
  /\ Return("main_after")
  /\ UNCHANGED << env, mainLocals, device, loaded, image, prompt, response,
                  stderr, exitStatus, hist >>

\* the number of times `step` was started
Count(step) == Cardinality({ i \in DOMAIN trace : trace[i] = step })

\* InferExcept that tries generate a second time after it failed
InferExcept_Retry ==
  /\ pc = "infer_except"
  /\ stderr' = Append(stderr, Line("error", "Error during inference", exc))
  /\ pc' = IF failed = "generate" /\ Count("generate") < 2
             THEN "generate" ELSE "analyze_except"
  /\ UNCHANGED << env, mainLocals, device, loaded, image, prompt, response,
                  result, exc, stdout, exitStatus, trace, failed, hist >>

\* lines 131-133: the except clause of the inference block logs and re-raises
InferExcept ==
  /\ pc = "infer_except"
  /\ stderr' = Append(stderr, Line("error", "Error during inference", exc))
  /\ pc' = "analyze_except"
  /\ UNCHANGED << env, mainLocals, device, loaded, image, prompt, response,
                  result, exc, stdout, exitStatus, trace, failed, hist >>

\* AnalyzeExcept that returns str(e) where the code returns None
AnalyzeExcept_ReturnsText ==
  /\ pc = "analyze_except"
  /\ stderr' = Append(stderr, Line("error", "Error in analyze_image", exc))
  /\ result' = Str("error")
  /\ exc' = NoExc
  /\ pc' = "main_after"
  /\ UNCHANGED << env, mainLocals, device, loaded, image, prompt, response,
                  stdout, exitStatus, trace, failed, hist >>

\* AnalyzeExcept that returns None without logging
AnalyzeExcept_Silent ==
  /\ pc = "analyze_except"
  /\ result' = None
  /\ exc' = NoExc
  /\ pc' = "main_after"
  /\ UNCHANGED << env, mainLocals, device, loaded, image, prompt, response,
                  io, exitStatus, trace, failed, hist >>

\* AnalyzeExcept that logs and re-raises, as the inner except clauses do
AnalyzeExcept_Reraise ==
  /\ pc = "analyze_except"
  /\ stderr' = Append(stderr, Line("error", "Error in analyze_image", exc))
  /\ pc' = "main_after"
  /\ UNCHANGED << env, mainLocals, device, loaded, image, prompt, response,
                  result, exc, stdout, exitStatus, trace, failed, hist >>

\* lines 135-137: the outer except clause logs, swallows and returns None
AnalyzeExcept ==
  /\ pc = "analyze_except"
  /\ stderr' = Append(stderr, Line("error", "Error in analyze_image", exc))
  /\ result' = None
  /\ exc' = NoExc
  /\ pc' = "main_after"
  /\ UNCHANGED << env, mainLocals, device, loaded, image, prompt, response,
                  stdout, exitStatus, trace, failed, hist >>

Next ==
  \/ MainArgs
  \/ AnalyzePathCheck
  \/ SetupGpu
  \/ LoadConfig
  \/ LoadProcessor
  \/ LoadTokenizer
  \/ LoadWeights
  \/ ModelTo
  \/ LoadGenConfig
  \/ LoadExcept
  \/ ImageOpen
  \/ ImageConvert
  \/ ImageExcept
  \/ CreatePrompt
  \/ ProcessorCall
  \/ Generate
  \/ Decode
  \/ PrintResponse
  \/ InferExcept
  \/ AnalyzeExcept
  \/ MainAfterAnalyze

Spec == Init /\ [][Next]_vars

TypeOK ==
  /\ exitStatus \in {-1, 0, 1}
  /\ (pc = "exited") <=> (exitStatus # -1)
  /\ device \in Devices \cup {"none"}

\* the steps spec.md counts as loading or inference
LoadSteps ==
  { "config_load", "processor_load", "tokenizer_load", "model_load",
    "model_to", "genconfig_load" }
ImageSteps == { "image_open", "image_convert" }
InferSteps == { "processor_call", "generate", "decode" }
LoadInferSteps == LoadSteps \cup ImageSteps \cup InferSteps

\* the program runs on until it exits: no step blocks for ever
FairSpec == Spec /\ WF_vars(Next)

Exited == pc = "exited"
HasPath == ArgvLen >= 2
ChosenModel == IF ArgvLen > 2 THEN Argv(2) ELSE DefaultModel
IsPrefix(s, t) == Len(s) <= Len(t) /\ s = SubSeq(t, 1, Len(s))
IsError(l) == l.kind = "error"
ErrorLines == SelectSeq(stderr, IsError)
ResponseLine == Line("response", response.val, <<>>)
AnalyzeErrorLine(e) == Line("error", "Error in analyze_image", e)

\* C1: once a step of loading or inference has raised (config, processor,
\* tokenizer or model load, model.to, generation config, image open or
\* convert, processor call, generate, decode), the process goes on to exit,
\* and its exit status is 1.
C1_FailureExitsOne ==
  (failed \in LoadInferSteps) ~> (Exited /\ exitStatus = 1)

C1_Witness ==
  Exited /\ failed = "genconfig_load" /\ exitStatus = 1

\* C2: a run with an existing image path in which no step raised ends with
\* the decoded response as the one line of standard output and exit status
\* 0, the empty response included.
C2_SuccessPrintsAndExitsZero ==
  (Exited /\ HasPath /\ Argv(1) \in fs /\ failed = "none")
    => /\ ~response.isNone
       /\ stdout = << ResponseLine >>
       /\ exitStatus = 0

C2_Witness ==
  /\ Exited /\ HasPath /\ Argv(1) \in fs /\ failed = "none"
  /\ response = Str("")
  /\ stdout = << Line("response", "", <<>>) >>
  /\ exitStatus = 0

\* C3: a run whose image path is not on the file system exits with status 1,
\* with or without a model name argument.
C3_MissingFileExitsOne ==
  (Exited /\ HasPath /\ Argv(1) \notin fs) => exitStatus = 1

C3_Witness ==
  Exited /\ ArgvLen = 3 /\ Argv(1) \notin fs /\ Argv(2) \in fs
         /\ exitStatus = 1

\* C4: with no argument after the script name, main writes the usage message
\* to standard error and exits with status 1; analyze_image is not called,
\* so no path check, device probe, load or inference takes place.
C4_NoArgsUsage ==
  (ArgvLen < 2 /\ pc # "main")
    => /\ Exited /\ exitStatus = 1
       /\ stderr = << Line("usage", "Usage", <<>>) >>
       /\ stdout = <<>>
       /\ calls = <<>> /\ trace = <<>>
       /\ device = "none" /\ model = NoModel /\ image = "none"

C4_Witness ==
  ArgvLen = 1 /\ Exited /\ exitStatus = 1 /\ Len(stderr) = 1

\* C5: standard output holds nothing but the decoded response, written at
\* most once; usage, progress and error lines are all on standard error; a
\* run that exits with 1 wrote nothing to standard output, and a run exits
\* with 0 exactly when it printed the response.
C5_StdoutOnlyResponse ==
  /\ Len(stdout) <= 1
  /\ \A i \in DOMAIN stdout : ~response.isNone /\ stdout[i] = ResponseLine
  /\ \A i \in DOMAIN stderr : stderr[i].kind \in {"usage", "progress", "error"}
  /\ Exited => /\ (exitStatus = 0) <=> (Len(stdout) = 1)
               /\ (exitStatus = 1) => (stdout = <<>>)

C5_Witness ==
  Exited /\ exitStatus = 0 /\ Len(stdout) = 1 /\ Len(stderr) = 4

\* C6: every failure (missing file, load, image decode, inference) is caught
\* inside the script and leaves an error line with the exception's text on
\* standard error before the non-zero exit; no run exits non-zero without an
\* error or usage line on standard error.
C6_FailuresLogged ==
  /\ (Exited /\ exitStatus # 0)
       => \E i \in DOMAIN stderr : stderr[i].kind \in {"error", "usage"}
  /\ (Exited /\ failed # "none")
       => /\ exitStatus # 0
          /\ exc = NoExc
          /\ ErrorLines # <<>>
          /\ \A i \in DOMAIN ErrorLines : ErrorLines[i].detail # <<>>

C6_Witness ==
  /\ Exited /\ failed = "path_check" /\ exitStatus = 1
  /\ ErrorLines # <<>>

\* C7: analyze_image is called with sys.argv[1] as the image path and with
\* sys.argv[2] as the model name when it is given, else with the default
\* name; nothing the run holds or writes comes from a later argument.
C7_ArgumentChoice ==
  /\ Len(calls) <= 1
  /\ \A i \in DOMAIN calls : calls[i] = << Argv(1), ChosenModel >>
  /\ (HasPath /\ pc # "main")
       => image_path = Argv(1) /\ model_name = ChosenModel
  /\ \A i \in DOMAIN stderr :
       stderr[i].tag \in { "Loading model configuration",
                           "Loading processor and tokenizer",
                           "Loading model" }
         => stderr[i].detail = << ChosenModel >>

C7_Witness ==
  /\ ArgvLen = 4 /\ Argv(3) # Argv(2) /\ Argv(3) # Argv(1)
  /\ Exited
  /\ calls = << << Argv(1), Argv(2) >> >>
  /\ \E i \in DOMAIN stderr : stderr[i].tag = "Loading model"

\* C8: the steps started in a run are a prefix of the order of the code
\* (device probe, config load, processor and tokenizer load, model load,
\* image decode, prompt, generate, decode, print): each at most once, each
\* only after all earlier ones returned, none after a failure.
C8_StepsArePrefix ==
  /\ IsPrefix(trace, StepOrder)
  /\ \A s \in { StepOrder[i] : i \in DOMAIN StepOrder } : Count(s) <= 1
  /\ failed # "none" => trace # <<>> /\ failed = trace[Len(trace)]
  /\ (Exited /\ failed = "none" /\ HasPath) => trace = StepOrder

C8_Witness ==
  /\ Exited /\ failed = "generate"
  /\ trace = SubSeq(StepOrder, 1, 13)
  /\ Count("generate") = 1

\* C9: analyze_image returns to main with the response when no step raised
\* and with None when one did; no exception leaves it, and the except clause
\* of main is never entered.
C9_AnalyzeNeverRaises ==
  /\ ~mainHandlerEntered
  /\ (pc \in {"main_after", "exited"} /\ calls # <<>>)
       => /\ exc = NoExc
          /\ result.isNone <=> (failed # "none")
          /\ ~result.isNone => result = response

C9_Witness ==
  /\ Exited /\ failed = "decode" /\ result = None
  /\ ~mainHandlerEntered /\ exc = NoExc

\* C10: the existence check comes first: when the image file is missing,
\* nothing after the check is started and the one line on standard error is
\* 'Error in analyze_image'; a load, image or inference failure writes its
\* own error line first and 'Error in analyze_image' second, both with the
\* text of the same exception.
SpecificTag(step) ==
  IF step \in LoadSteps THEN "Error loading model"
  ELSE IF step \in ImageSteps THEN "Error loading image"
  ELSE "Error during inference"

C10_PathCheckFirst ==
  /\ trace # <<>> => trace[1] = "path_check"
  /\ (HasPath /\ Argv(1) \notin fs)
       => /\ IsPrefix(trace, << "path_check" >>)
          /\ device = "none" /\ model = NoModel /\ image = "none"
          /\ Exited =>
               stderr = << AnalyzeErrorLine(<< "Image file not found",
                                               Argv(1) >>) >>
  /\ (Exited /\ failed \in LoadInferSteps)
       => \E e \in ErrTexts :
            ErrorLines = << Line("error", SpecificTag(failed), <<e>>),
                            AnalyzeErrorLine(<<e>>) >>

C10_Witness ==
  /\ Exited /\ HasPath /\ Argv(1) \notin fs
  /\ trace = << "path_check" >>
  /\ Len(stderr) = 1
====
